---- MODULE Spec2Model ----
(***************************************************************************)
(* Model of mini_asset_loader: a CachedLoader wrapping an ordered list of  *)
(* child loaders (a directory, an in-memory map, a second directory), the  *)
(* CombinedLoader over the same children, the extension-mapped creation    *)
(* handler, typed loading, and the reference-counted garbage collector.    *)
(***************************************************************************)
EXTENDS Integers, Sequences, FiniteSets, TLC

(* ------------------------------ bounds --------------------------------- *)
\* number of storage blocks (objects behind handles) that can be live at once
MaxObj == 3
\* number of handles the callers hold at once outside every loader
MaxExt == 2

(* --------------------------- identifiers ------------------------------- *)
\* An identifier is a sequence of path tokens; "." and "/" are the dot and
\* the path separator, every other token is a run of ordinary characters.
IdJson == <<"a", ".", "json">>
IdDae == <<"sub", "/", "b", ".", "dae">>
IdUnk == <<"c", ".", "unknown">>
IdHidden == <<".", "json">>
Ids == {IdJson, IdDae, IdUnk, IdHidden}
\* an absolute identifier, and the identifiers handed to a directory loader
IdAbs == <<"/", "a", ".", "json">>
DirIds == Ids \cup {IdAbs}

Objs == 1..MaxObj
Types == {"Json", "Mesh"}
NoType == "none"

(* ------------------------ the loaders' fixtures ------------------------ *)
\* the pre-built handle of the in-memory map loader and its key
MemObj == 1
MemType == "Mesh"
MemMap == [i \in {IdDae} |-> MemObj]
\* the ordered children of the Vec / CombinedLoader
Loaders == <<"dirA", "mem", "dirB">>
Dirs == {"dirA", "dirB"}
FileKinds == {"absent", "dir", "file"}
\* dirB is never modified: two regular files and a directory
DirBFiles ==
  [i \in Ids |-> IF i \in {IdJson, IdUnk} THEN "file"
                  ELSE IF i = IdDae THEN "dir" ELSE "absent"]
\* what dirA holds when the loaders are built
DirAFiles ==
  [i \in Ids |-> IF i \in {IdJson, IdHidden} THEN "file"
                  ELSE IF i = IdUnk THEN "dir" ELSE "absent"]
\* the regular file outside both directories
RootFiles == [p \in {IdAbs} |-> "file"]
\* the path of dirA that changes while the program runs
ChangingIds == {IdJson}
\* outcome of the I/O and of the delegate for one regular file
IOs == {"ok", "openfail", "reject"}
AllOk == [d \in Dirs |-> "ok"]

(* ------------------------- creation handlers --------------------------- *)
\* the runtime type of the value each leaf delegate produces
Produces == [J |-> "Json", M |-> "Mesh"]
\* the handlers a caller may pass: a plain delegate, and two extension maps
ExtTable(h) ==
  CASE h = "ext" -> [e \in {"json", "dae"} |-> IF e = "json" THEN "J" ELSE "M"]
    [] h = "ext2" -> [e \in {"json"} |-> "M"]
    [] OTHER -> [e \in {} |-> "J"]
Handlers == {"plainJ", "ext", "ext2"}

VARIABLES cache, alive, type, ext, inner, files, last
vars == <<cache, alive, type, ext, inner, files, last>>

(* ------------------------- Path::extension ----------------------------- *)
RECURSIVE LastIndexOf(_, _, _)
\* greatest index k <= n with s[k] = t, or 0
LastIndexOf(s, t, n) ==
  IF n = 0 THEN 0 ELSE IF s[n] = t THEN n ELSE LastIndexOf(s, t, n - 1)

RECURSIVE StripTrailingSep(_)
StripTrailingSep(s) ==
  IF Len(s) > 0 /\ s[Len(s)] = "/" THEN StripTrailingSep(SubSeq(s, 1, Len(s) - 1)) ELSE s

\* the last component f of a path: none when it is empty or ".."
Component(f) == IF f = <<>> \/ f = <<".", ".">> THEN <<>> ELSE <<f>>

\* the part of the path p after its last separator
AfterLastSep(p) == SubSeq(p, LastIndexOf(p, "/", Len(p)) + 1, Len(p))

\* Path::file_name: the last component; none for an empty path or ".."
FileName(id) == Component(AfterLastSep(StripTrailingSep(id)))

\* the part of the file name f after the dot at position d; none when there
\* is no dot or the only dot is the leading one
AfterDot(f, d) == IF d <= 1 THEN <<>> ELSE <<SubSeq(f, d + 1, Len(f))>>

\* the extension of an optional file name
ExtensionOf(fn) ==
  IF fn = <<>> THEN <<>> ELSE AfterDot(fn[1], LastIndexOf(fn[1], ".", Len(fn[1])))

\* Path::extension: the part of the file name after its last dot
Extension(id) == ExtensionOf(FileName(id))

\* OsStr::to_str of an extension made of one token
ExtStr(e) == IF Len(e) = 1 THEN <<e[1]>> ELSE IF Len(e) = 0 THEN <<"">> ELSE <<>>

(* ---------------------- AssetCreationHandler --------------------------- *)
NoValue == [val |-> NoType, delegates |-> <<>>]

\* a leaf delegate: produces its type when the content deserializes
LeafCreate(d, io) ==
  [val |-> IF io = "ok" THEN Produces[d] ELSE NoType, delegates |-> <<d>>]

\* self.handlers.get_mut(ext)?.create_asset(..) for the optional string s
Dispatch(h, s, io) ==
  IF s = <<>> THEN NoValue
  ELSE IF s[1] \notin DOMAIN ExtTable(h) THEN NoValue
  ELSE LeafCreate(ExtTable(h)[s[1]], io)

\* extension()?.to_str() for the optional extension e
ExtToStr(e) == IF e = <<>> THEN <<>> ELSE ExtStr(e[1])

\* a dispatch that falls back to the J delegate for an unregistered extension
ExtensionMappedCreate_Fallback(h, id, io) ==
  IF ExtToStr(Extension(id)) = <<>> THEN NoValue
  ELSE IF Dispatch(h, ExtToStr(Extension(id)), io).delegates = <<>>
       THEN LeafCreate("J", io)
       ELSE Dispatch(h, ExtToStr(Extension(id)), io)

\* ExtensionMappedAssetCreationHandler::create_asset
ExtensionMappedCreate(h, id, io) == Dispatch(h, ExtToStr(Extension(id)), io)

\* dyn AssetCreationHandler::create_asset
CreateAsset(h, id, io) ==
  IF h = "plainJ" THEN LeafCreate("J", io) ELSE ExtensionMappedCreate(h, id, io)

(* --------------------------- AnyHandle --------------------------------- *)
\* the clone the in-memory map loader keeps of its pre-built handle
MemHolds(o) == IF o = MemObj THEN 1 ELSE 0

\* AnyHandle::reference_count: the live clones of the handle of o, held by
\* the cache map c, by callers (ex), by the in-memory map and inside the
\* values of the live assets al (inn: the handle an asset's value stores)
ReferenceCount(o, c, al, ex, inn) ==
  Cardinality({i \in Ids : c[i] = o}) + ex[o] + MemHolds(o)
    + Cardinality({a \in al : inn[a] = o})

RECURSIVE Release(_, _, _, _, _)
\* the storage in dead is deallocated, then Release goes on
Free(dead, c, al, ty, ex, inn) ==
  IF dead = {} THEN [alive |-> al, type |-> ty, inner |-> inn]
  ELSE Release(c, al \ dead,
               [o \in Objs |-> IF o \in dead THEN NoType ELSE ty[o]],
               ex,
               [o \in Objs |-> IF o \in dead THEN 0 ELSE inn[o]])

\* Drop for AnyHandle: storage whose last clone is gone is deallocated, which
\* drops the handle stored inside its value, and so on
Release(c, al, ty, ex, inn) ==
  Free({o \in al : ReferenceCount(o, c, al, ex, inn) = 0}, c, al, ty, ex, inn)

\* the conversion of AnyHandle<dyn Any> into Option<AnyHandle<T>>: it
\* succeeds exactly when the runtime type t of the value is T
Downcast(t, T) == t = T

\* the handles the callers hold
RECURSIVE Held(_, _)
Held(ex, n) == IF n = 0 THEN 0 ELSE ex[n] + Held(ex, n - 1)

\* the block the allocator tries first for the asset named id
Preferred(id) ==
  CASE id = IdJson -> (1 % MaxObj) + 1
    [] id = IdUnk -> (2 % MaxObj) + 1
    [] id = IdHidden -> (3 % MaxObj) + 1
    [] OTHER -> 1

\* AnyHandle::new allocates fresh storage: the first free block from the
\* preferred one on, 0 when the model's pool is exhausted
NewObj(al, id) ==
  IF Objs \ al = {} THEN 0
  ELSE CHOOSE o \in Objs \ al :
         \A p \in Objs \ al :
           (o - Preferred(id)) % MaxObj <= (p - Preferred(id)) % MaxObj

(* ---------------------------- leaf loaders ----------------------------- *)
NotFound == [found |-> FALSE, obj |-> 0, fresh |-> FALSE, type |-> NoType,
             loaders |-> <<>>, delegates |-> <<>>]

FilesOf(dir, fl) == IF dir = "dirB" THEN DirBFiles ELSE fl

\* PathBuf::push: an absolute path replaces the base, a relative one is
\* appended after a separator
Push(base, id) ==
  IF id # <<>> /\ id[1] = "/" THEN id ELSE base \o <<"/">> \o id

\* the positions of p where a separator follows a separator
Repeated(p) == {k \in 2..Len(p) : p[k - 1] = "/" /\ p[k] = "/"}

\* the path p without its token at position k
Without(p, k) == SubSeq(p, 1, k - 1) \o SubSeq(p, k + 1, Len(p))

RECURSIVE Squeeze(_)
\* the path as the file system reads it: repeated separators count as one
Squeeze(p) ==
  IF Repeated(p) = {} THEN p
  ELSE Squeeze(Without(p, CHOOSE k \in Repeated(p) : TRUE))

\* what the path rest is inside the directory d
Entry(d, rest, fl) == IF rest \in Ids THEN FilesOf(d, fl)[rest] ELSE "absent"

\* what the normalised path q is: an entry of one of the two directories, the
\* file outside them, or nothing
Lookup(q, fl) ==
  IF Len(q) > 2 /\ q[1] \in Dirs /\ q[2] = "/"
  THEN Entry(q[1], SubSeq(q, 3, Len(q)), fl)
  ELSE IF q \in DOMAIN RootFiles THEN RootFiles[q] ELSE "absent"

\* the metadata of the path p, as Path::is_file asks for it
KindAt(p, fl) == Lookup(Squeeze(p), fl)

\* Some(AnyHandle::new(res)) for the value res the handler produced, if any
Wrap(res, new) ==
  IF res.val = NoType THEN [NotFound EXCEPT !.delegates = res.delegates]
  ELSE [found |-> TRUE, obj |-> new, fresh |-> TRUE, type |-> res.val,
        loaders |-> <<>>, delegates |-> res.delegates]

\* a loader that opens whatever the path is, without asking is_file
PathBufLoad_NoFileCheck(dir, h, id, io, fl, new) ==
  IF io = "openfail" THEN NotFound
  ELSE Wrap(CreateAsset(h, id, io), new)

\* impl AssetLoader for PathBuf
PathBufLoad(dir, h, id, io, fl, new) ==
  IF KindAt(Push(<<dir>>, id), fl) # "file" THEN NotFound
  ELSE IF io = "openfail" THEN NotFound
  ELSE Wrap(CreateAsset(h, id, io), new)

\* DirectoryLoader::load_asset, the loader being generic in its handler: the
\* delegate d is handed the reader alone
DirectoryLoad(dir, d, id, io, fl, new) ==
  IF KindAt(Push(<<dir>>, id), fl) # "file" THEN NotFound
  ELSE IF io = "openfail" THEN NotFound
  ELSE Wrap(LeafCreate(d, io), new)

\* impl AssetLoader for HashMap<String, AnyHandle<dyn Any>>
HashMapLoad(id) ==
  IF id \in DOMAIN MemMap
  THEN [found |-> TRUE, obj |-> MemMap[id], fresh |-> FALSE, type |-> MemType,
        loaders |-> <<>>, delegates |-> <<>>]
  ELSE NotFound

\* Box<dyn AssetLoader>::load_asset of the child named name
ChildLoad(name, h, id, io, fl, new) ==
  IF name = "mem" THEN HashMapLoad(id)
  ELSE PathBufLoad(name, h, id, io[name], fl, new)

\* the result rest of the later children, after child name found nothing
After(name, invoked, rest) ==
  [rest EXCEPT !.loaders = <<name>> \o rest.loaders,
               !.delegates = invoked \o rest.delegates]

RECURSIVE VecLoad(_, _, _, _, _, _)
\* find_map: the result r of child k if it is a handle, else the later ones
FindMap(r, k, h, id, io, fl, new) ==
  IF r.found THEN [r EXCEPT !.loaders = <<Loaders[k]>>]
  ELSE After(Loaders[k], r.delegates, VecLoad(k + 1, h, id, io, fl, new))

\* impl AssetLoader for Vec<Box<dyn AssetLoader>>: find_map from child k on
VecLoad(k, h, id, io, fl, new) ==
  IF k > Len(Loaders) THEN NotFound
  ELSE FindMap(ChildLoad(Loaders[k], h, id, io, fl, new), k, h, id, io, fl, new)

RECURSIVE CombinedLoop_NoShortCircuit(_, _, _, _, _, _, _, _)
\* the later children's answer rest wins over the answer asset
LastWins(asset, rest) ==
  IF asset.found /\ ~rest.found
  THEN [asset EXCEPT !.loaders = rest.loaders, !.delegates = rest.delegates]
  ELSE rest

\* one turn of a loop that goes on after a child has answered
GoOn(asset, k, called, invoked, h, id, io, fl, new) ==
  LastWins(asset, CombinedLoop_NoShortCircuit(k + 1, Append(called, Loaders[k]),
                    invoked \o asset.delegates, h, id, io, fl, new))

\* a loop that keeps querying the children after one has answered and
\* returns the answer of the last one
CombinedLoop_NoShortCircuit(k, called, invoked, h, id, io, fl, new) ==
  IF k > Len(Loaders)
  THEN [NotFound EXCEPT !.loaders = called, !.delegates = invoked]
  ELSE GoOn(ChildLoad(Loaders[k], h, id, io, fl, new), k, called, invoked,
            h, id, io, fl, new)

RECURSIVE CombinedLoop(_, _, _, _, _, _, _, _)
\* the body of the for loop: return Some(asset), or go to the next child
LoopBody(asset, k, called, invoked, h, id, io, fl, new) ==
  IF asset.found
  THEN [asset EXCEPT !.loaders = Append(called, Loaders[k]),
                     !.delegates = invoked \o asset.delegates]
  ELSE CombinedLoop(k + 1, Append(called, Loaders[k]),
                    invoked \o asset.delegates, h, id, io, fl, new)

\* the for loop of CombinedLoader::load_asset, with the calls made so far
CombinedLoop(k, called, invoked, h, id, io, fl, new) ==
  IF k > Len(Loaders)
  THEN [NotFound EXCEPT !.loaders = called, !.delegates = invoked]
  ELSE LoopBody(ChildLoad(Loaders[k], h, id, io, fl, new), k, called, invoked,
                h, id, io, fl, new)

\* CombinedLoader::load_asset
CombinedLoad(h, id, io, fl, new) == CombinedLoop(1, <<>>, <<>>, h, id, io, fl, new)

(* --------------------------- CachedLoader ------------------------------ *)
\* Entry::Vacant: v.insert(child?) and the clone returned
Vacant(child, id, c) ==
  IF ~child.found THEN [r |-> child, cache |-> c]
  ELSE [r |-> child, cache |-> [c EXCEPT ![id] = child.obj]]

\* Entry::Occupied: the clone of the stored handle
Occupied(id, c) ==
  [r |-> [NotFound EXCEPT !.found = TRUE, !.obj = c[id]], cache |-> c]

\* a cache that asks the child even when the entry is occupied
CachedLoad_AlwaysReload(h, id, io, c, fl, new) ==
  Vacant(VecLoad(1, h, id, io, fl, new), id, c)

\* a cache that returns the child's handle without storing it
CachedLoad_NoInsert(h, id, io, c, fl, new) ==
  IF c[id] # 0 THEN Occupied(id, c)
  ELSE [r |-> VecLoad(1, h, id, io, fl, new), cache |-> c]

\* CachedLoader::load_asset: the handle returned (r) and the cache map after
\* the call; the entry API inserts only into a vacant slot, and `?` leaves
\* the map as it was when the child finds nothing
CachedLoad(h, id, io, c, fl, new) ==
  IF c[id] # 0 THEN Occupied(id, c)
  ELSE Vacant(VecLoad(1, h, id, io, fl, new), id, c)

\* AssetLoader::load_asset on one of the loaders a caller can address
RootLoad(root, h, id, io, c, fl, new) ==
  CASE root = "cached" -> CachedLoad(h, id, io, c, fl, new)
    [] root = "vec" -> [r |-> VecLoad(1, h, id, io, fl, new), cache |-> c]
    [] OTHER -> [r |-> CombinedLoad(h, id, io, fl, new), cache |-> c]

(* ------------------- a handler that calls the cache -------------------- *)
\* the asset the reentrant handler asks the CachedLoader for
DepId == IdJson
\* a handler that runs and creates nothing of its own
Rejecting == [d \in Dirs |-> "reject"]

\* RefCell::borrow_mut: it returns only when the cell is not borrowed, and
\* panics otherwise
BorrowMut(flag) == flag = "unused"

\* a borrow that is given back before the child loader is called
FlagDuringChild_Released(taken) == "unused"

\* the borrow flag of self.cache while self.loader.load_asset runs: the RefMut
\* taken when load_asset starts is alive until load_asset returns
FlagDuringChild(taken) == taken

\* whether the child loader gets to invoke the creation handler for id: some
\* directory holds a regular file and no earlier child answers
HandlerRuns(id, fl) == VecLoad(1, "plainJ", id, Rejecting, fl, 0).delegates # <<>>

\* the outcome of a load during which the handler did not call the cache
Plain(res) ==
  [panic |-> FALSE, ran |-> FALSE, r |-> res.r, cache |-> res.cache, dep |-> NotFound]

\* the handler's call of load_asset(DepId) on the same CachedLoader got the
\* cache (nested: its outcome); the handler drops the handle, creates nothing,
\* and the outer load goes on with the later children
Reentered(nested, id, fl) ==
  [panic |-> FALSE, ran |-> TRUE, dep |-> nested.r,
   r |-> VecLoad(1, "plainJ", id, Rejecting, fl, 0),
   cache |-> Vacant(VecLoad(1, "plainJ", id, Rejecting, fl, 0), id, nested.cache).cache]

\* the handler calls load_asset(DepId) on the same CachedLoader while the
\* borrow flag of its cache is flag
HandlerCall(flag, id, c, fl, new) ==
  IF ~BorrowMut(flag)
  THEN [panic |-> TRUE, ran |-> TRUE, r |-> NotFound, cache |-> c, dep |-> NotFound]
  ELSE Reentered(CachedLoad("plainJ", DepId, AllOk, c, fl, new), id, fl)

\* CachedLoader::load_asset with the reentrant handler: the handler runs only
\* on the vacant path, inside self.loader.load_asset
ReentrantCachedLoad(id, c, fl, new) ==
  IF c[id] # 0 THEN Plain(Occupied(id, c))
  ELSE IF ~HandlerRuns(id, fl)
  THEN Plain(Vacant(VecLoad(1, "plainJ", id, Rejecting, fl, new), id, c))
  ELSE HandlerCall(FlagDuringChild("mut"), id, c, fl, new)

RECURSIVE Retain_KeepAll(_, _, _, _, _, _, _)
\* the sweep goes on from position k after the storage of rel was released
KeepAllNext(rel, ord, k, c, ex) ==
  Retain_KeepAll(ord, k, c, rel.alive, rel.type, ex, rel.inner)

\* a sweep whose test is reference_count() >= 1
Retain_KeepAll(ord, k, c, al, ty, ex, inn) ==
  IF k > Len(ord) THEN [cache |-> c, alive |-> al, type |-> ty, inner |-> inn]
  ELSE IF c[ord[k]] = 0 \/ ReferenceCount(c[ord[k]], c, al, ex, inn) >= 1
  THEN Retain_KeepAll(ord, k + 1, c, al, ty, ex, inn)
  ELSE KeepAllNext(Release([c EXCEPT ![ord[k]] = 0], al, ty, ex, inn),
                   ord, k + 1, [c EXCEPT ![ord[k]] = 0], ex)

RECURSIVE Retain_OffByOne(_, _, _, _, _, _, _)
\* the sweep goes on from position k after the storage of rel was released
OffByOneNext(rel, ord, k, c, ex) ==
  Retain_OffByOne(ord, k, c, rel.alive, rel.type, ex, rel.inner)

\* a sweep whose test is reference_count() > 2
Retain_OffByOne(ord, k, c, al, ty, ex, inn) ==
  IF k > Len(ord) THEN [cache |-> c, alive |-> al, type |-> ty, inner |-> inn]
  ELSE IF c[ord[k]] = 0 \/ ReferenceCount(c[ord[k]], c, al, ex, inn) > 2
  THEN Retain_OffByOne(ord, k + 1, c, al, ty, ex, inn)
  ELSE OffByOneNext(Release([c EXCEPT ![ord[k]] = 0], al, ty, ex, inn),
                    ord, k + 1, [c EXCEPT ![ord[k]] = 0], ex)

RECURSIVE Retain(_, _, _, _, _, _, _)
\* the sweep goes on from position k after the storage of rel was released
RetainNext(rel, ord, k, c, ex) ==
  Retain(ord, k, c, rel.alive, rel.type, ex, rel.inner)

\* HashMap::retain(|_, v| v.reference_count() > 1) visiting the keys in the
\* order ord from position k: an entry that fails the test is erased and its
\* handle dropped on the spot, before the next entry is inspected
Retain(ord, k, c, al, ty, ex, inn) ==
  IF k > Len(ord) THEN [cache |-> c, alive |-> al, type |-> ty, inner |-> inn]
  ELSE IF c[ord[k]] = 0 \/ ReferenceCount(c[ord[k]], c, al, ex, inn) > 1
  THEN Retain(ord, k + 1, c, al, ty, ex, inn)
  ELSE RetainNext(Release([c EXCEPT ![ord[k]] = 0], al, ty, ex, inn),
                  ord, k + 1, [c EXCEPT ![ord[k]] = 0], ex)

\* HashMap::len
CacheLen(c) == Cardinality({i \in Ids : c[i] # 0})

\* the state s after n sweeps, as garbage_collect leaves it
Swept(s, n) ==
  [cache |-> s.cache, alive |-> s.alive, type |-> s.type, inner |-> s.inner,
   sweeps |-> n]

\* a collector that sweeps the map once
GcLoop_OnePass(ord, n, c, al, ty, ex, inn) ==
  Swept(Retain(ord, 1, c, al, ty, ex, inn), n + 1)

RECURSIVE GcLoop(_, _, _, _, _, _, _)
\* a loop that, after a sweep that removed nothing, sweeps once more before
\* it breaks
BreakOrLoop_Recheck(pre_len, s, ord, n, ex) ==
  IF pre_len = CacheLen(s.cache)
  THEN Swept(Retain(ord, 1, s.cache, s.alive, s.type, ex, s.inner), n + 1)
  ELSE GcLoop(ord, n, s.cache, s.alive, s.type, ex, s.inner)

\* the end of one turn of the loop: break when the sweep removed nothing
BreakOrLoop(pre_len, s, ord, n, ex) ==
  IF pre_len = CacheLen(s.cache) THEN Swept(s, n)
  ELSE GcLoop(ord, n, s.cache, s.alive, s.type, ex, s.inner)

\* the loop of CachedLoader::garbage_collect; n counts the sweeps done
GcLoop(ord, n, c, al, ty, ex, inn) ==
  BreakOrLoop(CacheLen(c), Retain(ord, 1, c, al, ty, ex, inn), ord, n + 1, ex)

\* the orders in which the map can iterate over its keys
Orders(c) ==
  LET keys == {i \in Ids : c[i] # 0} IN
  {o \in [1..Cardinality(keys) -> keys] : \A i \in keys : \E k \in DOMAIN o : o[k] = i}

(* ------------------------------ state ---------------------------------- *)
\* the record of the last call: the loader addressed, the handle returned,
\* the child loaders called and the leaf delegates invoked, in order; for a
\* typed load the type asked for and the runtime type of the erased handle;
\* for a direct create_asset the handler, the outcome of deserialization and
\* the type of the value produced; for garbage_collect the number of sweeps
NoCall == [op |-> "none", root |-> "none", id |-> <<>>, h |-> "none", io |-> "none",
           want |-> NoType, val |-> NoType, ret |-> 0,
           loaders |-> <<>>, delegates |-> <<>>, sweeps |-> 0]

TypeOK ==
  /\ cache \in [Ids -> 0..MaxObj]
  /\ alive \subseteq Objs
  /\ type \in [Objs -> Types \cup {NoType}]
  /\ ext \in [Objs -> 0..MaxExt]
  /\ inner \in [Objs -> 0..MaxObj]
  /\ files \in [Ids -> FileKinds]

Init ==
  /\ cache = [i \in Ids |-> 0]
  /\ alive = {MemObj}
  /\ type = [o \in Objs |-> IF o = MemObj THEN MemType ELSE NoType]
  /\ ext = [o \in Objs |-> 0]
  /\ inner = [o \in Objs |-> 0]
  /\ files = DirAFiles
  /\ last = NoCall

(* ----------------------------- actions --------------------------------- *)
\* a caller loads an erased handle and keeps it
LoadAsset(root, h, id, io) ==
  \E res \in {RootLoad(root, h, id, io, cache, files, NewObj(alive, id))} :
  LET r == res.r
  IN /\ r.found => r.obj # 0 /\ Held(ext, MaxObj) < MaxExt
     /\ cache' = res.cache
     /\ alive' = IF r.found THEN alive \cup {r.obj} ELSE alive
     /\ type' = IF r.found /\ r.fresh THEN [type EXCEPT ![r.obj] = r.type] ELSE type
     /\ ext' = IF r.found THEN [ext EXCEPT ![r.obj] = @ + 1] ELSE ext
     /\ last' = [NoCall EXCEPT !.op = "load", !.root = root, !.id = id,
                    !.ret = r.obj, !.loaders = r.loaders, !.delegates = r.delegates]
     /\ UNCHANGED <<inner, files>>

\* a caller loads from the directory dirA, addressed directly as a PathBuf or
\* as a DirectoryLoader over the J delegate, and keeps the handle
LoadFromDir(kind, h, id, io) ==
  \E r \in {IF kind = "pathbuf"
              THEN PathBufLoad("dirA", h, id, io, files, NewObj(alive, id))
              ELSE DirectoryLoad("dirA", "J", id, io, files, NewObj(alive, id))} :
  /\ r.found => r.obj # 0 /\ Held(ext, MaxObj) < MaxExt
  /\ alive' = IF r.found THEN alive \cup {r.obj} ELSE alive
  /\ type' = IF r.found THEN [type EXCEPT ![r.obj] = r.type] ELSE type
  /\ ext' = IF r.found THEN [ext EXCEPT ![r.obj] = @ + 1] ELSE ext
  /\ last' = [NoCall EXCEPT !.op = "load", !.root = kind, !.id = id, !.h = h,
                 !.io = io, !.val = r.type, !.ret = r.obj,
                 !.delegates = r.delegates]
  /\ UNCHANGED <<cache, inner, files>>

\* a caller loads through the CachedLoader with a handler that itself loads
\* DepId through the same CachedLoader; a panic unwinds to the caller, which
\* goes on (the borrow is given back by the unwinding)
ReentrantLoad(id) ==
  \E res \in {ReentrantCachedLoad(id, cache, files, NewObj(alive, DepId))} :
  /\ res.dep.found => res.dep.obj # 0
  /\ res.r.found => res.r.obj # 0 /\ Held(ext, MaxObj) < MaxExt
  /\ cache' = res.cache
  /\ alive' = alive \cup (IF res.dep.found THEN {res.dep.obj} ELSE {})
  /\ type' = IF res.dep.found /\ res.dep.fresh
             THEN [type EXCEPT ![res.dep.obj] = res.dep.type] ELSE type
  /\ ext' = IF res.r.found THEN [ext EXCEPT ![res.r.obj] = @ + 1] ELSE ext
  /\ last' = IF res.panic
             THEN [NoCall EXCEPT !.op = "panic", !.root = "cached", !.id = id,
                                 !.h = "reent"]
             ELSE [NoCall EXCEPT !.op = "load", !.root = "cached", !.id = id,
                                 !.h = IF res.ran THEN "reent" ELSE "none",
                                 !.ret = res.r.obj, !.loaders = res.r.loaders,
                                 !.delegates = res.r.delegates]
  /\ UNCHANGED <<inner, files>>

\* a typed load that hands the erased handle out without converting it
LoadTypedAsset_NoCheck(root, h, id, io, want) ==
  \E res \in {RootLoad(root, h, id, io, cache, files, NewObj(alive, id))} :
  /\ res.r.found => res.r.obj # 0
  /\ \E ty \in {IF res.r.found /\ res.r.fresh
                  THEN [type EXCEPT ![res.r.obj] = res.r.type] ELSE type} :
     LET r == res.r
     IN /\ r.found => r.obj # 0 /\ Held(ext, MaxObj) < MaxExt
        /\ cache' = res.cache
        /\ alive' = IF r.found THEN alive \cup {r.obj} ELSE alive
        /\ type' = ty
        /\ ext' = IF r.found THEN [ext EXCEPT ![r.obj] = @ + 1] ELSE ext
        /\ last' = [NoCall EXCEPT !.op = "load_typed", !.root = root, !.id = id, !.want = want,
                       !.val = IF r.found THEN ty[r.obj] ELSE NoType,
                       !.ret = r.obj, !.loaders = r.loaders, !.delegates = r.delegates]
        /\ UNCHANGED <<inner, files>>

\* TypedAssetLoader::load_typed_asset::<want>: load_asset, then the erased
\* handle is converted; on a type mismatch the erased handle is dropped
LoadTypedAsset(root, h, id, io, want) ==
  \E res \in {RootLoad(root, h, id, io, cache, files, NewObj(alive, id))} :
  /\ res.r.found => res.r.obj # 0
  /\ \E al \in {IF res.r.found THEN alive \cup {res.r.obj} ELSE alive} :
     \E ty \in {IF res.r.found /\ res.r.fresh
                  THEN [type EXCEPT ![res.r.obj] = res.r.type] ELSE type} :
     \E rel \in {Release(res.cache, al, ty, ext, inner)} :
     LET r == res.r
         ok == r.found /\ Downcast(ty[r.obj], want)
     IN /\ ok => Held(ext, MaxObj) < MaxExt
        /\ cache' = res.cache
        /\ alive' = IF ok THEN al ELSE rel.alive
        /\ type' = IF ok THEN ty ELSE rel.type
        /\ inner' = IF ok THEN inner ELSE rel.inner
        /\ ext' = IF ok THEN [ext EXCEPT ![r.obj] = @ + 1] ELSE ext
        /\ last' = [NoCall EXCEPT !.op = "load_typed", !.root = root, !.id = id,
                       !.want = want,
                       !.val = IF r.found THEN ty[r.obj] ELSE NoType,
                       !.ret = IF ok THEN r.obj ELSE 0,
                       !.loaders = r.loaders, !.delegates = r.delegates]
        /\ UNCHANGED files

\* a caller invokes a creation handler directly on a readable stream
CallCreateAsset(h, id, io) ==
  /\ \E res \in {CreateAsset(h, id, io)} :
       last' = [NoCall EXCEPT !.op = "create", !.id = id, !.h = h, !.io = io,
                   !.val = res.val, !.delegates = res.delegates]
  /\ UNCHANGED <<cache, alive, type, ext, inner, files>>

\* a caller clones a handle it holds
CloneHandle(o) ==
  /\ ext[o] > 0 /\ Held(ext, MaxObj) < MaxExt
  /\ ext' = [ext EXCEPT ![o] = @ + 1]
  /\ last' = NoCall
  /\ UNCHANGED <<cache, alive, type, inner, files>>

\* a caller drops a handle it holds
DropHandle(o) ==
  /\ ext[o] > 0
  /\ ext' = [ext EXCEPT ![o] = @ - 1]
  /\ \E rel \in {Release(cache, alive, type, [ext EXCEPT ![o] = @ - 1], inner)} :
        /\ alive' = rel.alive
        /\ type' = rel.type
        /\ inner' = rel.inner
  /\ last' = NoCall
  /\ UNCHANGED <<cache, files>>

\* a caller holding handles to a and b stores a clone of b's handle inside
\* the value of a (through the handle's write access), a's own handle when
\* b = a; the assets of the in-memory map store no handle
LinkAssets(a, b) ==
  /\ ext[a] > 0 /\ ext[b] > 0
  /\ a # MemObj
  /\ inner[a] = 0
  /\ inner' = [inner EXCEPT ![a] = b]
  /\ last' = NoCall
  /\ UNCHANGED <<cache, alive, type, ext, files>>

\* CachedLoader::garbage_collect, the map iterating in the order ord
GarbageCollect(ord) ==
  \E g \in {GcLoop(ord, 0, cache, alive, type, ext, inner)} :
  /\ cache' = g.cache
  /\ alive' = g.alive
  /\ type' = g.type
  /\ inner' = g.inner
  /\ last' = [NoCall EXCEPT !.op = "gc", !.sweeps = g.sweeps]
  /\ UNCHANGED <<ext, files>>

\* the environment changes what the path dirA/id is
ChangeFile(id, kind) ==
  /\ files[id] # kind
  /\ files' = [files EXCEPT ![id] = kind]
  /\ last' = NoCall
  /\ UNCHANGED <<cache, alive, type, ext, inner>>

\* the program around one CachedLoader: loads with either handler, handle
\* traffic of the callers (an asset is given the handle of another one), and
\* reclamation
Next ==
  \/ \E h \in {"plainJ", "ext"}, id \in Ids : LoadAsset("cached", h, id, AllOk)
  \/ \E o \in Objs : CloneHandle(o)
  \/ \E o \in Objs : DropHandle(o)
  \/ \E a, b \in Objs : a # b /\ LinkAssets(a, b)
  \/ \E ord \in Orders(cache) : GarbageCollect(ord)

Spec == Init /\ [][Next]_vars

\* the CachedLoader under typed loads and a handler that calls back into
\* the loader
NextCalls ==
  \/ \E id \in Ids : LoadAsset("cached", "plainJ", id, AllOk)
  \/ \E id \in Ids, want \in Types : LoadTypedAsset("cached", "plainJ", id, AllOk, want)
  \/ \E id \in Ids : ReentrantLoad(id)
  \/ \E o \in Objs : DropHandle(o)
  \/ \E ord \in Orders(cache) : GarbageCollect(ord)

SpecCalls == Init /\ [][NextCalls]_vars

\* the CachedLoader with assets that may store any handle, their own included
NextLinks ==
  \/ \E id \in Ids : LoadAsset("cached", "plainJ", id, AllOk)
  \/ \E o \in Objs : DropHandle(o)
  \/ \E a, b \in Objs : LinkAssets(a, b)
  \/ \E ord \in Orders(cache) : GarbageCollect(ord)

SpecLinks == Init /\ [][NextLinks]_vars

\* the uncached loaders over a changing directory: every handler, every
\* outcome of the I/O and of the delegates
NextLoaders ==
  \/ \E root \in {"vec", "combined"}, h \in Handlers, id \in Ids, io \in [Dirs -> IOs] :
       LoadAsset(root, h, id, io)
  \/ \E h \in Handlers, id \in Ids, want \in Types :
       LoadTypedAsset("vec", h, id, AllOk, want)
  \/ \E h \in Handlers, id \in Ids, io \in {"ok", "reject"} : CallCreateAsset(h, id, io)
  \/ \E o \in Objs : DropHandle(o)
  \/ \E id \in ChangingIds, kind \in FileKinds : ChangeFile(id, kind)

SpecLoaders == Init /\ [][NextLoaders]_vars

\* one directory addressed directly, as a PathBuf and as a DirectoryLoader,
\* with relative and absolute identifiers, while its content changes
NextDirs ==
  \/ \E h \in Handlers, id \in DirIds, io \in IOs : LoadFromDir("pathbuf", h, id, io)
  \/ \E id \in DirIds, io \in IOs : LoadFromDir("directory", "plainJ", id, io)
  \/ \E o \in Objs : DropHandle(o)
  \/ \E id \in ChangingIds, kind \in FileKinds : ChangeFile(id, kind)

SpecDirs == Init /\ [][NextDirs]_vars

(* ------------------------------ claims --------------------------------- *)
\* the reference count of o in the current state
Count(o) == ReferenceCount(o, cache, alive, ext, inner)
\* the reference count of o in the next state
CountNext(o) == ReferenceCount(o, cache', alive', ext', inner')

\* C1: once the CachedLoader holds an entry for i, a load_asset(i), with any
\* handler, returns a clone of the stored handle (its count goes up by one),
\* leaves the map as it is and calls neither a child loader nor a delegate;
\* so a load of i right after a load of i that returned a handle returns the
\* same storage without invoking the child.
C1_IdempotentCaching ==
  [][\A i \in Ids :
       (last'.op = "load" /\ last'.root = "cached" /\ last'.id = i) =>
         /\ cache[i] # 0 =>
              /\ last'.ret = cache[i]
              /\ last'.loaders = <<>> /\ last'.delegates = <<>>
              /\ cache' = cache /\ alive' = alive
              /\ CountNext(cache[i]) = Count(cache[i]) + 1
         /\ (last.op = "load" /\ last.root = "cached" /\ last.id = i /\ last.ret # 0) =>
              /\ last'.ret = last.ret
              /\ last'.loaders = <<>>]_vars

\* a load that was answered from the cache
C1_Witness ==
  /\ last.op = "load" /\ last.root = "cached" /\ last.ret # 0
  /\ last.loaders = <<>>
  /\ cache[last.id] = last.ret
  /\ Count(last.ret) >= 3

\* C2: a load_asset(i) that finds no entry for i invokes the child loader and
\* returns what the child returns; when that is nothing the map is left
\* unchanged (no negative entry), and when it is a handle the entry for i is
\* inserted with it.
C2_NotFoundNotCached ==
  [][\A i \in Ids :
       (cache[i] = 0 /\ last'.op = "load" /\ last'.root = "cached" /\ last'.id = i) =>
         /\ last'.loaders # <<>>
         /\ \E h \in Handlers :
              LET child == VecLoad(1, h, i, AllOk, files, NewObj(alive, i)) IN
              /\ child.found = (last'.ret # 0)
              /\ child.obj = last'.ret
              /\ child.loaders = last'.loaders
              /\ child.delegates = last'.delegates
         /\ last'.ret = 0 => cache' = cache
         /\ last'.ret # 0 => cache' = [cache EXCEPT ![i] = last'.ret]]_vars

\* a load for which every child returned nothing, leaving no entry
C2_Witness ==
  /\ last.op = "load" /\ last.root = "cached" /\ last.ret = 0
  /\ last.loaders = Loaders
  /\ cache[last.id] = 0

\* C3 as stated: whatever the child loader, garbage_collect removes an entry
\* whose handle has no clone held by a caller or stored inside an asset.
C3_AnyChildReclaimed ==
  [][\A i \in Ids :
       (last'.op = "gc" /\ cache[i] # 0 /\ ext[cache[i]] = 0
          /\ \A a \in alive : inner[a] # cache[i])
       => cache'[i] = 0]_vars

\* C3 as amended: when the child loader kept no clone of the handle it
\* returned, garbage_collect removes an entry whose handle has no clone held
\* by a caller or stored inside an asset (the cache is its only holder).
C3_Reclaimed ==
  [][\A i \in Ids :
       (last'.op = "gc" /\ cache[i] # 0 /\ ext[cache[i]] = 0
          /\ \A a \in alive : inner[a] # cache[i]
          /\ MemHolds(cache[i]) = 0)
       => cache'[i] = 0 /\ cache[i] \notin alive']_vars

\* a garbage_collect that emptied the cache
C3_Witness ==
  /\ last.op = "gc" /\ last.sweeps = 2
  /\ \A i \in Ids : cache[i] = 0

\* C4: an entry leaves the map only in garbage_collect, and only when no
\* caller holds a clone, the child loader holds none, and every asset that
\* stored a clone has itself been freed by the same call.
C4_RemovedOnlyWhenUnheld ==
  [][\A i \in Ids :
       (cache[i] # 0 /\ cache'[i] # cache[i]) =>
         /\ last'.op = "gc"
         /\ cache'[i] = 0
         /\ ext[cache[i]] = 0
         /\ MemHolds(cache[i]) = 0
         /\ \A a \in alive : inner[a] = cache[i] => a \notin alive']_vars

\* a garbage_collect that removed an entry and kept one a caller still holds
C4_Witness ==
  /\ last.op = "gc" /\ last.sweeps >= 2
  /\ \E i \in Ids : cache[i] # 0 /\ ext[cache[i]] > 0

\* the cached assets whose only holders are the cache and assets of D
Orphaned(D) ==
  {o \in alive : /\ \E i \in Ids : cache[i] = o
                 /\ ext[o] = 0 /\ MemHolds(o) = 0
                 /\ \A a \in alive : inner[a] = o => a \in D}

RECURSIVE OrphanClosure(_)
\* the entries of every chain of orphaned assets: the least fixed point
OrphanClosure(D) ==
  LET n == Orphaned(D) IN IF n = D THEN D ELSE OrphanClosure(n)

\* C5: one garbage_collect call removes every entry of a chain of orphaned
\* assets (A held by the cache alone, B by the cache and A, and so on),
\* whatever the order in which the sweeps visit the map.
C5_MultiHop ==
  [][last'.op = "gc" =>
       \A i \in Ids : cache[i] \in OrphanClosure({}) =>
                        cache'[i] = 0 /\ cache[i] \notin alive']_vars

\* a garbage_collect that needed a second removing sweep
C5_Witness == last.op = "gc" /\ last.sweeps >= 3

\* C6: when garbage_collect returns, no remaining entry has reference count
\* 1, and a garbage_collect right after it removes nothing, in one sweep.
C6_FixedPoint ==
  [][last'.op = "gc" =>
       /\ \A i \in Ids : cache'[i] # 0 => CountNext(cache'[i]) > 1
       /\ last.op = "gc" => cache' = cache /\ last'.sweeps = 1]_vars

\* a garbage_collect that removed entries and left others
C6_Witness ==
  /\ last.op = "gc" /\ last.sweeps = 2
  /\ \E i \in Ids : cache[i] # 0 /\ ext[cache[i]] = 0

\* the entries i and j hold handles to each other
Cycle(i, j) ==
  /\ cache[i] # 0 /\ cache[j] # 0 /\ cache[i] # cache[j]
  /\ inner[cache[i]] = cache[j] /\ inner[cache[j]] = cache[i]

\* C7: entries that hold handles to each other are never removed by
\* garbage_collect, also when no caller holds either of them.
C7_CyclesKept ==
  [][\A i, j \in Ids :
       (Cycle(i, j) /\ last'.op = "gc") =>
         /\ cache'[i] = cache[i] /\ cache'[j] = cache[j]
         /\ inner'[cache[i]] = cache[j] /\ inner'[cache[j]] = cache[i]
         /\ {cache[i], cache[j]} \subseteq alive']_vars

\* a garbage_collect that ran over a cycle nobody else holds
C7_Witness ==
  /\ last.op = "gc"
  /\ \E i, j \in Ids : Cycle(i, j) /\ Count(cache[i]) = 2 /\ Count(cache[j]) = 2

\* the children of the list that resolve the request
Hits(h, id, io) ==
  {k \in 1..Len(Loaders) : ChildLoad(Loaders[k], h, id, io, files, NewObj(alive, id)).found}

\* C8: the CombinedLoader calls its children in insertion order, returns the
\* result of the first child that returns a handle and calls no later child;
\* it returns nothing exactly when every child, each called once, did.
C8_PriorityShortCircuit ==
  /\ \A h \in Handlers, id \in Ids, io \in [Dirs -> IOs] :
       \E r \in {CombinedLoad(h, id, io, files, NewObj(alive, id))} :
       \E hits \in {Hits(h, id, io)} :
          IF hits = {}
          THEN ~r.found /\ r.loaders = Loaders
          ELSE \E n \in {CHOOSE k \in hits : \A m \in hits : k <= m} :
               \E c \in {ChildLoad(Loaders[n], h, id, io, files, NewObj(alive, id))} :
                  /\ r.found /\ r.obj = c.obj /\ r.type = c.type /\ r.fresh = c.fresh
                  /\ r.loaders = SubSeq(Loaders, 1, n)
  /\ (last.op = "load" /\ last.root = "combined") =>
       \E n \in 1..Len(Loaders) :
         /\ last.loaders = SubSeq(Loaders, 1, n)
         /\ last.ret = 0 => n = Len(Loaders)
         /\ last.ret # 0 =>
              IF Loaders[n] = "mem"
              THEN last.id \in DOMAIN MemMap /\ last.ret = MemMap[last.id]
              ELSE FilesOf(Loaders[n], files)[last.id] = "file"

\* a request both directories can resolve, answered by the first
C8_Witness ==
  /\ last.op = "load" /\ last.root = "combined" /\ last.ret # 0
  /\ last.loaders = <<"dirA">>
  /\ DirBFiles[last.id] = "file"

\* the extension of each identifier, "" for none
KnownExtension ==
  [i \in Ids |-> IF i = IdJson THEN "json"
                 ELSE IF i = IdDae THEN "dae"
                 ELSE IF i = IdUnk THEN "unknown" ELSE ""]

\* C9: create_asset of the extension-mapped handler invokes exactly the
\* delegate registered for the identifier's extension and returns its
\* result; with no extension or no delegate registered it returns nothing
\* and invokes no delegate.
C9_ExtensionDispatch ==
  (last.op = "create" /\ last.h \in {"ext", "ext2"}) =>
    LET e == KnownExtension[last.id] IN
    IF e \in DOMAIN ExtTable(last.h)
    THEN /\ last.delegates = <<ExtTable(last.h)[e]>>
         /\ last.val = IF last.io = "ok" THEN Produces[ExtTable(last.h)[e]] ELSE NoType
    ELSE last.delegates = <<>> /\ last.val = NoType

\* a ".dae" identifier created through the map: only M ran
C9_Witness ==
  /\ last.op = "create" /\ last.h = "ext" /\ last.id = IdDae
  /\ last.delegates = <<"M">> /\ last.val = "Mesh"

\* C10: load_typed_asset::<T> returns a handle exactly when load_asset
\* returns a handle whose value has runtime type T, and that handle is a
\* holder of the same storage; for a value of another type it returns
\* nothing.
C10_DowncastSafety ==
  last.op = "load_typed" =>
    /\ \E h \in Handlers :
         LET erased == VecLoad(1, h, last.id, AllOk, files, 0) IN
         /\ erased.type = last.val
         /\ erased.loaders = last.loaders
         /\ erased.delegates = last.delegates
    /\ (last.ret # 0) = (last.val = last.want)
    /\ last.ret # 0 =>
         /\ last.ret \in alive /\ type[last.ret] = last.want /\ ext[last.ret] >= 1
         /\ last.loaders[Len(last.loaders)] = "mem" => last.ret = MemMap[last.id]

\* a typed load of a Json asset as a Mesh
C10_Witness ==
  /\ last.op = "load_typed" /\ last.val = "Json" /\ last.want = "Mesh"
  /\ last.ret = 0

\* C11: the Vec of boxed loaders and the CombinedLoader over the same ordered
\* children, given the same handler, identifier and I/O outcomes, call the
\* same children in the same order, invoke the same delegates and return the
\* same result; every load made through either is what the other computes.
C11_VecMatchesCombined ==
  /\ \A h \in Handlers, id \in Ids, io \in [Dirs -> IOs] :
       VecLoad(1, h, id, io, files, NewObj(alive, id))
         = CombinedLoad(h, id, io, files, NewObj(alive, id))
  /\ (last.op = "load" /\ last.root \in {"vec", "combined"}) =>
       \E h \in Handlers, io \in [Dirs -> IOs] :
         \E v \in {VecLoad(1, h, last.id, io, files, last.ret)} :
           /\ v.found = (last.ret # 0)
           /\ v.loaders = last.loaders /\ v.delegates = last.delegates
           /\ v = CombinedLoad(h, last.id, io, files, last.ret)

\* a load through the Vec that the third child answered after two misses
C11_Witness ==
  /\ last.op = "load" /\ last.root = "vec" /\ last.ret # 0
  /\ last.loaders = Loaders
  /\ CombinedLoad("plainJ", last.id, AllOk, files, last.ret).loaders = Loaders

\* the last call was a load from the directory dirA addressed directly
DirLoaded == last.op = "load" /\ last.root \in {"pathbuf", "directory"}

\* what one invocation of the handler of the last call does
Handled == CreateAsset(last.h, last.id, last.io)

\* the handler of the last call ran exactly once, and a fresh handle was
\* returned exactly when it produced a value
CreatedOnce ==
  /\ last.delegates = Handled.delegates
  /\ last.h = "plainJ" => last.delegates = <<"J">>
  /\ (last.ret # 0) = (Handled.val # NoType)
  /\ last.ret # 0 =>
       /\ last.ret # MemObj /\ ext[last.ret] = 1
       /\ type[last.ret] = Handled.val

\* nothing was returned and no delegate ran
NothingLoaded == last.ret = 0 /\ last.delegates = <<>>

C13_SweepsBounded ==
  [][last'.op = "gc" =>
       /\ last'.sweeps >= 1
       /\ last'.sweeps <= (CacheLen(cache) - CacheLen(cache')) + 1
       /\ last'.sweeps <= CacheLen(cache) + 1
       /\ \A i \in Ids : cache'[i] # 0 => cache'[i] = cache[i]]_vars

\* a garbage_collect that emptied a cache of two chained entries in as many
\* sweeps as the bound allows
C13_Witness ==
  /\ last.op = "gc" /\ last.sweeps = 3
  /\ \A i \in Ids : cache[i] = 0
  /\ alive = {MemObj}

HeldOutside(o, ex, al, inn) == ex[o] + Cardinality({a \in al : inn[a] = o})

\* C15: for a cached entry whose handle a leaf loader created, the reference
\* count is 1 plus the clones held by callers and inside assets; it is 2
\* right after the load that inserted the entry, a later load of the
\* identifier adds 1, a drop of a handle a caller holds subtracts 1, and
\* garbage_collect leaves the count of an entry it keeps unchanged unless
\* the asset of an entry it removed held a clone.
C15_CountAccounting ==
  [][\A i \in Ids :
       /\ (cache'[i] # 0 /\ MemHolds(cache'[i]) = 0) =>
            CountNext(cache'[i]) = 1 + HeldOutside(cache'[i], ext', alive', inner')
       /\ (cache[i] = 0 /\ last'.op = "load" /\ last'.id = i /\ last'.ret # 0
             /\ MemHolds(last'.ret) = 0) =>
            cache'[i] = last'.ret /\ CountNext(last'.ret) = 2
       /\ (cache[i] # 0 /\ MemHolds(cache[i]) = 0) =>
            /\ (last'.op = "load" /\ last'.id = i) =>
                 CountNext(cache[i]) = Count(cache[i]) + 1
            /\ ext'[cache[i]] = ext[cache[i]] - 1 =>
                 CountNext(cache[i]) = Count(cache[i]) - 1
            /\ (last'.op = "gc" /\ cache'[i] # 0
                  /\ \A j \in Ids : (cache[j] # 0 /\ cache'[j] = 0) =>
                                      inner[cache[j]] # cache[i]) =>
                 CountNext(cache[i]) = Count(cache[i])]_vars

\* the load that inserted an entry for a handle a directory created
C15_Witness ==
  /\ last.op = "load" /\ last.root = "cached" /\ last.ret # 0
  /\ last.loaders # <<>> /\ last.delegates # <<>>
  /\ cache[last.id] = last.ret /\ MemHolds(last.ret) = 0
  /\ Count(last.ret) = 2 /\ ext[last.ret] = 1

\* C17: while the child loader keeps its own clone of a handle it returned
\* (the in-memory map does, for as long as it exists), the reference count
\* of the entry is at least 2 and no step, garbage_collect included, removes
\* the entry or frees the storage, also when no caller holds a clone.
C17_ChildCloneKeepsEntry ==
  [][\A i \in Ids :
       (cache[i] # 0 /\ MemHolds(cache[i]) > 0) =>
         /\ Count(cache[i]) >= 2
         /\ cache'[i] = cache[i]
         /\ cache[i] \in alive']_vars

\* a garbage_collect that removed another entry and kept the entry of the
\* in-memory map's handle, which no caller and no asset holds
C17_Witness ==
  /\ last.op = "gc" /\ last.sweeps >= 2
  /\ cache[IdDae] = MemObj
  /\ ext[MemObj] = 0 /\ \A a \in alive : inner[a] # MemObj
  /\ Count(MemObj) = 2

\* C16: load_asset keeps the cache mutably borrowed while the child loader
\* and the handler run, so a load through the CachedLoader whose handler,
\* once invoked, calls load_asset on the same CachedLoader ends in a panic:
\* the nested call returns neither a handle nor nothing, and the map, the
\* storage and the callers' handles are as before the call; the handler is
\* invoked only when the entry is vacant.
C16_ReentrantLoadPanics ==
  [][\A id \in Ids :
       /\ (ReentrantLoad(id) /\ cache[id] = 0 /\ HandlerRuns(id, files)) =>
            /\ last'.op = "panic" /\ last'.ret = 0
            /\ UNCHANGED <<cache, alive, type, ext, inner, files>>
       /\ (last'.h = "reent" /\ last'.id = id) =>
            /\ last'.op = "panic"
            /\ cache[id] = 0 /\ cache' = cache]_vars

\* a reentrant call made by the handler while the third child was loading,
\* with other entries in the cache
C16_Witness ==
  /\ last.op = "panic" /\ last.h = "reent" /\ last.id = IdUnk
  /\ cache[IdUnk] = 0 /\ cache[DepId] # 0

\* the last call was a typed load of i through the CachedLoader that found an
\* asset of another type than the one asked for
Mismatched(l, i) ==
  /\ l.op = "load_typed" /\ l.root = "cached" /\ l.id = i
  /\ l.val # NoType /\ l.val # l.want

\* what follows a mismatched typed load of i: a typed load of i asking for
\* the asset's type is answered from the cache, and a garbage_collect removes
\* the entry when the cache is its only holder
AfterMismatch(i) ==
  Mismatched(last, i) =>
    /\ (last'.op = "load_typed" /\ last'.root = "cached" /\ last'.id = i
          /\ last'.want = last.val) =>
         /\ last'.ret = cache[i] /\ last'.ret # 0
         /\ last'.loaders = <<>> /\ last'.delegates = <<>>
    /\ (last'.op = "gc" /\ Count(cache[i]) = 1) => cache'[i] = 0

\* C18 as stated: a typed load of i that finds an asset of another type
\* returns nothing and leaves an entry for i whose count is 1 when the entry
\* is new and unchanged when it was there; then AfterMismatch.
C18_AsStated ==
  [][\A i \in Ids :
       /\ Mismatched(last', i) =>
            /\ last'.ret = 0 /\ ext' = ext
            /\ cache'[i] # 0 /\ type'[cache'[i]] = last'.val
            /\ cache[i] # 0 => cache' = cache /\ CountNext(cache[i]) = Count(cache[i])
            /\ cache[i] = 0 => CountNext(cache'[i]) = 1
       /\ AfterMismatch(i)]_vars

\* C18 as amended: a typed load of i that finds an asset of another type
\* returns nothing and leaves an entry for i whose count is unchanged when
\* the entry was there and, when it is new, 1 plus the clones the child
\* loader keeps (1 for a handle a directory created, 2 for the handle of the
\* in-memory map); then AfterMismatch.
C18_MismatchPopulates ==
  [][\A i \in Ids :
       /\ Mismatched(last', i) =>
            /\ last'.ret = 0 /\ ext' = ext
            /\ cache'[i] # 0 /\ type'[cache'[i]] = last'.val
            /\ cache[i] # 0 => cache' = cache /\ CountNext(cache[i]) = Count(cache[i])
            /\ cache[i] = 0 => CountNext(cache'[i]) = 1 + MemHolds(cache'[i])
       /\ AfterMismatch(i)]_vars

\* a Json asset asked for as a Mesh through an empty cache: nothing is
\* returned, and the new entry is held by the cache alone
C18_Witness ==
  /\ Mismatched(last, last.id) /\ last.val = "Json" /\ last.loaders # <<>>
  /\ last.ret = 0 /\ cache[last.id] # 0
  /\ Count(cache[last.id]) = 1

\* the cached storage of S that a caller or the child loader holds, or that
\* the asset of an entry of S holds (own: an asset counts as a holder of
\* itself too)
StillHeld(S, own) ==
  {o \in S : \/ ext[o] > 0 \/ MemHolds(o) > 0
             \/ \E a \in S : inner[a] = o /\ (own \/ a # o)}

RECURSIVE LargestHeld(_, _)
\* the largest set of cached storage in which each is held from outside the
\* cache or by the asset of an entry of the set
LargestHeld(S, own) ==
  IF StillHeld(S, own) = S THEN S ELSE LargestHeld(StillHeld(S, own), own)

\* the cached storage
Cached == {cache[i] : i \in {j \in Ids : cache[j] # 0}}

\* the step keeps the cached storage of K and frees the rest of it, with the
\* handles the freed assets stored: one outcome, whatever the order
Keeps(K) ==
  /\ \A i \in Ids : cache'[i] = IF cache[i] \in K THEN cache[i] ELSE 0
  /\ alive' = alive \ (Cached \ K)
  /\ \A o \in Objs : inner'[o] = IF o \in Cached \ K THEN 0 ELSE inner[o]
  /\ ext' = ext

\* C19 as stated: whatever the order of the sweeps, garbage_collect keeps
\* exactly the largest set of entries each held by a caller, by the child
\* loader or by the asset of another entry that is kept.
C19_AsStated ==
  [][last'.op = "gc" => Keeps(LargestHeld(Cached, FALSE))]_vars

\* C19 as amended: whatever the order of the sweeps, garbage_collect keeps
\* exactly the largest set of entries each held by a caller, by the child
\* loader or by the asset of an entry that is kept, its own asset included.
C19_OrderIndependent ==
  [][last'.op = "gc" => Keeps(LargestHeld(Cached, TRUE))]_vars

\* a garbage_collect that removed an entry and kept one whose asset stores
\* its own handle and that nobody else holds
C19_Witness ==
  /\ last.op = "gc" /\ last.sweeps >= 2
  /\ \E i \in Ids : /\ cache[i] # 0 /\ inner[cache[i]] = cache[i]
                    /\ ext[cache[i]] = 0 /\ Count(cache[i]) = 2

====
